---------------------------- MODULE Spec2Model ----------------------------
(***************************************************************************)
(* Model of music_source_separation: Separator (inference.py) and Subband  *)
(* (models/pytorch_modules.py).                                            *)
(*                                                                         *)
(* A waveform is a sequence of channels, each a sequence of samples.  A    *)
(* sample is an integer on a grid of double-precision values on which the  *)
(* single-precision values are the even numbers, so that torch.Tensor(),   *)
(* which converts a numpy float64 array to float32, is a rounding and not  *)
(* the identity.                                                           *)
(***************************************************************************)
EXTENDS Integers, Sequences, FiniteSets, TLC

\* ------------------------------------------------------------------ bounds
MaxSamples == 10
MaxSegment == 8
MaxChannels == 2
MaxBatch == 3
MaxItems == 3
MaxFreq == 4
MaxDim == 2

\* No loop of a run with hop >= 1 and batch_size >= 1 takes this many turns: a
\* padded waveform has fewer than MaxSamples + MaxSegment samples and at most
\* one segment starts at each of them.
MaxIter == MaxSamples + MaxSegment

Min(a, b) == IF a < b THEN a ELSE b
Max(a, b) == IF a > b THEN a ELSE b

\* ------------------------------------------------------------ numpy helpers

\* seq[a:b] of Python and numpy: a negative index counts from the end, and
\* both ends are clamped to the sequence.
PyIndex(i, n) == IF i < 0 THEN Max(i + n, 0) ELSE Min(i, n)
PySlice(seq, a, b) == SubSeq(seq, PyIndex(a, Len(seq)) + 1, PyIndex(b, Len(seq)))

\* audio[:, a:b]: the same sample range of every channel.
SliceSamples(audio, a, b) == [c \in 1..Len(audio) |-> PySlice(audio[c], a, b)]

\* np.zeros((channels_num, pad_samples))
Zeros(channels_num, pad_samples) ==
    [c \in 1..channels_num |-> [s \in 1..pad_samples |-> 0]]

\* np.concatenate((a, b), axis=1) of two (channels, samples) arrays
ConcatSamples(a, b) == [c \in 1..Len(a) |-> a[c] \o b[c]]

\* np.concatenate(list, axis=0) / axis=-1 of a list of chunks
RECURSIVE ConcatChunks(_)
ConcatChunks(chunks) ==
    IF chunks = << >> THEN << >>
    ELSE Head(chunks) \o ConcatChunks(Tail(chunks))

\* int(np.ceil(a / b)) for a >= 0, b > 0
CeilDiv(a, b) == (a + b - 1) \div b

\* The float32 nearest to a float64 value (ties to the even mantissa): the
\* even grid points are float32 values, an odd one lies halfway between two.
ToFloat32(v) == IF v % 2 = 0 THEN v ELSE IF (v + 1) % 4 = 0 THEN v + 1 ELSE v - 1

\* torch.Tensor(array).to(device): a float32 copy of the (items, channels,
\* samples) rows of 'waveform' or of the (items, features) rows of 'condition'.
TorchTensor(key, items) ==
    IF key = "waveform"
    THEN [i \in 1..Len(items) |->
            [c \in 1..Len(items[i]) |->
                [s \in 1..Len(items[i][c]) |-> ToFloat32(items[i][c][s])]]]
    ELSE [i \in 1..Len(items) |->
            [s \in 1..Len(items[i]) |-> ToFloat32(items[i][s])]]

\* ---------------------------------------------------------------- the model

ModelKinds == {"identity", "scale", "reverse"}

\* What the network makes of one item of the 'waveform' batch.
ModelItem(kind, item) ==
    [c \in 1..Len(item) |->
        [s \in 1..Len(item[c]) |->
            CASE kind = "identity" -> item[c][s]
              [] kind = "scale"    -> 4 * item[c][s]
              [] kind = "reverse"  -> item[c][Len(item[c]) + 1 - s]]]

\* model(batch_input_dict) in eval mode under no_grad: {'wav': ...}, one
\* output item per item of the input batch.
Model(kind, batch) ==
    [k \in {"wav"} |->
        [i \in 1..Len(batch["waveform"]) |-> ModelItem(kind, batch["waveform"][i])]]

\* ------------------------------------------------------------------ Separator

\* pad_audio
PadSamplesExtra(audio_samples, segment_samples) ==
    ((audio_samples \div segment_samples) + 1) * segment_samples - audio_samples
pad_samples(audio_samples, segment_samples) ==
    CeilDiv(audio_samples, segment_samples) * segment_samples - audio_samples

pad_audio(audio, segment_samples) ==
    ConcatSamples(audio,
        Zeros(Len(audio), pad_samples(Len(audio[1]), segment_samples)))

\* enframe
HopFull(segment_samples) == segment_samples
hop_samples(segment_samples) == segment_samples \div 2

enframe_continues(pointer, segment_samples, audio_samples) ==
    pointer + segment_samples <= audio_samples

\* _is_integer and int() on x = segment_samples * 0.25 or * 0.75, in
\* hundredths: x - int(x) < 1e-10, where the fraction is a multiple of 0.25.
IntOfHundredths(xh) == xh \div 100
is_integer(xh) == xh - 100 * IntOfHundredths(xh) < 1

\* deframe: the sample range [lo, hi) kept of segment i of segments_num.
KeptLoHalf(i, segments_num, segment_samples) ==
    IF i = 1 THEN 0 ELSE IntOfHundredths(segment_samples * 50)
kept_lo(i, segments_num, segment_samples) ==
    IF i = 1 THEN 0 ELSE IntOfHundredths(segment_samples * 25)

KeptHiFull(i, segments_num, segment_samples) == segment_samples
kept_hi(i, segments_num, segment_samples) ==
    IF i = segments_num THEN segment_samples
    ELSE IntOfHundredths(segment_samples * 75)

deframe_asserts(segment_samples) ==
    is_integer(segment_samples * 25) /\ is_integer(segment_samples * 75)

deframe(segs) ==
    LET segments_num == Len(segs)
        channels_num == Len(segs[1])
        segment_samples == Len(segs[1][1])
    IN  IF segments_num = 1 THEN segs[1]
        ELSE [c \in 1..channels_num |->
                ConcatChunks(
                  [i \in 1..segments_num |->
                     PySlice(segs[i][c],
                             kept_lo(i, segments_num, segment_samples),
                             kept_hi(i, segments_num, segment_samples))])]

\* _forward_in_mini_batches
batch_slice(seq, pointer, batch_size) == PySlice(seq, pointer, pointer + batch_size)

NextPointerSkip(pointer, batch_size) == pointer + batch_size + 1
next_pointer(pointer, batch_size) == pointer + batch_size

\* _append_to_dict
AppendFront(dict, key, value) ==
    IF key \in DOMAIN dict
    THEN [dict EXCEPT ![key] = <<value>> \o @]
    ELSE [k \in DOMAIN dict \cup {key} |-> IF k = key THEN <<value>> ELSE dict[k]]
append_to_dict(dict, key, value) ==
    IF key \in DOMAIN dict
    THEN [dict EXCEPT ![key] = Append(@, value)]
    ELSE [k \in DOMAIN dict \cup {key} |-> IF k = key THEN <<value>> ELSE dict[k]]

\* np.tile(condition[None, :], (segments_num, 1))
tile_condition(condition, segments_num) == [i \in 1..segments_num |-> condition]

\* -------------------------------------------------------------------- Subband

\* A tensor is its shape and its elements in row-major order.
RECURSIVE Numel(_)
Numel(shape) == IF shape = << >> THEN 1 ELSE Head(shape) * Numel(Tail(shape))

\* The row-major offset of the (0-based) index idx, and its inverse.
RECURSIVE Offset(_, _)
Offset(shape, idx) ==
    IF shape = << >> THEN 0
    ELSE Offset(SubSeq(shape, 1, Len(shape) - 1), SubSeq(idx, 1, Len(idx) - 1))
            * shape[Len(shape)] + idx[Len(idx)]
Unravel(p, shape) ==
    [d \in 1..Len(shape) |->
        (p \div Numel(SubSeq(shape, d + 1, Len(shape)))) % shape[d]]

\* x.reshape(shape): the same elements in the same order; torch raises a
\* RuntimeError when the shape does not hold exactly the tensor's elements.
CanReshape(t, shape) == Numel(shape) = Len(t.data)
reshape(t, shape) == [shape |-> shape, data |-> t.data]

\* x.transpose(2, 3) of a 5-dimensional tensor, read in its new order.
swap_2_3(v) == <<v[1], v[2], v[4], v[3], v[5]>>
transpose_2_3(t) ==
    LET shape == swap_2_3(t.shape)
    IN  [shape |-> shape,
         data  |-> [p \in 1..Len(t.data) |->
                      t.data[Offset(t.shape, swap_2_3(Unravel(p - 1, shape))) + 1]]]

analysis_shape(x, k) ==
    <<x.shape[1], x.shape[2], x.shape[3], k, x.shape[4] \div k>>
AnalysisNoTranspose(x, k) ==
    reshape(reshape(x, analysis_shape(x, k)),
            <<x.shape[1], x.shape[2] * k, x.shape[3], x.shape[4] \div k>>)
analysis(x, k) ==
    reshape(transpose_2_3(reshape(x, analysis_shape(x, k))),
            <<x.shape[1], x.shape[2] * k, x.shape[3], x.shape[4] \div k>>)

synthesis_shape(x, k) ==
    <<x.shape[1], x.shape[2] \div k, k, x.shape[3], (x.shape[4] * k) \div k>>
synthesis(x, k) ==
    reshape(transpose_2_3(reshape(x, synthesis_shape(x, k))),
            <<x.shape[1], x.shape[2] \div k, x.shape[3], x.shape[4] * k>>)

\* x[b, c, t, f] of a 4-dimensional tensor, 0-based.
At(x, b, c, t, f) == x.data[Offset(x.shape, <<b, c, t, f>>) + 1]

\* ---------------------------------------------------------------- the state

VARIABLES
    call,                 \* the entry point the caller uses
    input_dict,           \* separate's argument
    segment_samples,      \* self.segment_samples
    batch_size,           \* self.batch_size
    kind,                 \* self.model
    pc,                   \* the position of the run
    outcome,              \* "running", "returned" or the exception raised
    audio,                \* separate: the padded audio
    segments,             \* enframe: the segments appended so far
    pointer,              \* the loop pointer of enframe / _forward_in_mini_batches
    segments_input_dict,  \* the argument of _forward_in_mini_batches
    batch_input_dict,     \* the mini-batch the model is running on
    output_dict,          \* key -> list of the chunks appended so far
    invocations,          \* the model calls started: their pointer and batch
    completed,            \* the number of model calls that have returned
    result,               \* what _forward_in_mini_batches returns
    deframed,             \* what deframe returns
    sep_audio,            \* what separate returns
    prev,                 \* what the caller's previous separate call returned
    subbands_num,         \* Subband.subbands_num
    x,                    \* the tensor given to Subband.analysis
    packed,               \* what analysis returns
    unpacked              \* what synthesis returns of it

vars == <<call, input_dict, segment_samples, batch_size, kind, pc, outcome, audio,
          segments, pointer, segments_input_dict, batch_input_dict, output_dict,
          invocations, completed, result, deframed, sep_audio, prev,
          subbands_num, x, packed, unpacked>>

subband_vars == <<subbands_num, x, packed, unpacked>>
separator_vars == <<input_dict, segment_samples, batch_size, kind, audio,
                    segments, pointer, segments_input_dict, batch_input_dict,
                    output_dict, invocations, completed, result, deframed,
                    sep_audio, prev>>
\* The waveforms the caller passes: float32 audio (even samples, as
\* librosa.load gives) and float64 audio, every sample different.
Ramp32(channels_num, audio_samples) ==
    [c \in 1..channels_num |->
        [s \in 1..audio_samples |-> 2 * ((c - 1) * audio_samples + s)]]
Ramp64(channels_num, audio_samples) ==
    [c \in 1..channels_num |->
        [s \in 1..audio_samples |-> (c - 1) * audio_samples + s]]
Waveforms ==
    UNION {{Ramp32(c, n), Ramp64(c, n)} : c \in 1..MaxChannels, n \in 1..MaxSamples}

Conditions == {<<6>>}
BatchSizes == (-1)..MaxBatch

InputDicts ==
    {[k \in {"waveform"} |-> w] : w \in Waveforms}
    \cup {[k \in {"waveform", "condition"} |-> IF k = "waveform" THEN w ELSE c] :
            w \in Waveforms, c \in Conditions}

\* The dictionaries a caller hands to _forward_in_mini_batches itself: n
\* one-sample segments, and possibly m condition rows.
Item(i) == << <<2 * i>> >>
SegmentDicts ==
    {[k \in {"waveform"} |-> [i \in 1..n |-> Item(i)]] : n \in 0..MaxItems}
    \cup {[k \in {"waveform", "condition"} |->
              IF k = "waveform" THEN [i \in 1..n |-> Item(i)]
              ELSE [i \in 1..m |-> <<6 + 2 * i>>]] :
            n \in 0..MaxItems, m \in 0..MaxItems}

Idle ==
    /\ outcome = "running"
    /\ audio = << >>
    /\ segments = << >>
    /\ pointer = 0
    /\ batch_input_dict = << >>
    /\ output_dict = << >>
    /\ invocations = << >>
    /\ completed = 0
    /\ result = << >>
    /\ deframed = << >>
    /\ sep_audio = << >>
    /\ prev = << >>

NoSubband ==
    /\ subbands_num = 0
    /\ x = << >>
    /\ packed = << >>
    /\ unpacked = << >>

InitSeparate ==
    /\ call = "separate"
    /\ pc = "separate"
    /\ input_dict \in InputDicts
    /\ segment_samples \in 1..MaxSegment
    /\ batch_size \in BatchSizes
    /\ kind \in ModelKinds
    /\ segments_input_dict = << >>
    /\ Idle
    /\ NoSubband

InitForward ==
    /\ call = "forward"
    /\ pc = "forward"
    /\ input_dict = << >>
    /\ segment_samples = 1
    /\ batch_size \in BatchSizes
    /\ kind \in ModelKinds
    /\ segments_input_dict \in SegmentDicts
    /\ Idle
    /\ NoSubband

\* The (batch_size, channels_num, time_steps, freq_bins) tensors given to
\* Subband.analysis, every element different.
Tensors ==
    {[shape |-> <<b, c, t, f>>, data |-> [p \in 1..(b * c * t * f) |-> p]] :
        b \in 1..MaxDim, c \in 1..MaxDim, t \in 1..MaxDim, f \in 1..MaxFreq}

InitSubband ==
    /\ call = "subband"
    /\ pc = "analysis"
    /\ input_dict = << >>
    /\ segment_samples = 1
    /\ batch_size = 1
    /\ kind = "identity"
    /\ segments_input_dict = << >>
    /\ Idle
    /\ subbands_num \in 1..MaxFreq
    /\ x \in Tensors
    /\ packed = << >>
    /\ unpacked = << >>

Init == InitSeparate \/ InitForward \/ InitSubband

segments_num == Len(segments_input_dict["waveform"])

\* separate, lines 42-44
waveform == input_dict["waveform"]
audio_samples == Len(waveform[1])

\* ------------------------------------------------------------------ separate

\* separate, lines 42-48: audio = self.pad_audio(audio)
SeparatePad ==
    /\ pc = "separate"
    /\ audio' = pad_audio(waveform, segment_samples)
    /\ pc' = "enframe"
    /\ UNCHANGED <<call, input_dict, segment_samples, batch_size, kind, outcome,
                   segments, pointer, segments_input_dict, batch_input_dict,
                   output_dict, invocations, completed, result, deframed,
                   sep_audio, prev, subband_vars>>

\* enframe, lines 111-117: the assertion, then the loop's start
EnframeEntry ==
    /\ pc = "enframe"
    /\ IF Len(audio[1]) % segment_samples = 0
       THEN /\ pc' = "enframe_loop"
            /\ outcome' = outcome
       ELSE /\ pc' = "done"
            /\ outcome' = "AssertionError"
    /\ segments' = << >>
    /\ pointer' = 0
    /\ UNCHANGED <<call, input_dict, segment_samples, batch_size, kind, audio,
                   segments_input_dict, batch_input_dict, output_dict,
                   invocations, completed, result, deframed, sep_audio, prev, subband_vars>>

\* enframe, lines 118-120: one turn of the while loop
EnframeStep ==
    /\ pc = "enframe_loop"
    /\ enframe_continues(pointer, segment_samples, Len(audio[1]))
    /\ Len(segments) < MaxIter
    /\ segments' = Append(segments,
                          SliceSamples(audio, pointer, pointer + segment_samples))
    /\ pointer' = pointer + hop_samples(segment_samples)
    /\ UNCHANGED <<call, input_dict, segment_samples, batch_size, kind, pc, outcome,
                   audio, segments_input_dict, batch_input_dict, output_dict,
                   invocations, completed, result, deframed, sep_audio, prev, subband_vars>>

\* enframe returns (lines 122-124); separate builds segments_input_dict
\* (lines 54-60) and calls _forward_in_mini_batches
EnframeReturn ==
    /\ pc = "enframe_loop"
    /\ ~enframe_continues(pointer, segment_samples, Len(audio[1]))
    /\ segments_input_dict' =
          IF "condition" \in DOMAIN input_dict
          THEN [k \in {"waveform", "condition"} |->
                  IF k = "waveform" THEN segments
                  ELSE tile_condition(input_dict["condition"], Len(segments))]
          ELSE [k \in {"waveform"} |-> segments]
    /\ pc' = "forward"
    /\ UNCHANGED <<call, input_dict, segment_samples, batch_size, kind, outcome,
                   audio, segments, pointer, batch_input_dict, output_dict,
                   invocations, completed, result, deframed, sep_audio, prev, subband_vars>>

\* ------------------------------------------------- _forward_in_mini_batches

\* lines 183-186
ForwardEntry ==
    /\ pc = "forward"
    /\ output_dict' = << >>
    /\ pointer' = 0
    /\ pc' = "fwd_loop"
    /\ UNCHANGED <<call, input_dict, segment_samples, batch_size, kind, outcome,
                   audio, segments, segments_input_dict, batch_input_dict,
                   invocations, completed, result, deframed, sep_audio, prev, subband_vars>>

\* lines 189-203: the batch is sliced, the pointer moved, the model called
ForwardInvoke ==
    /\ pc = "fwd_loop"
    /\ ~(pointer >= segments_num)
    /\ Len(invocations) < MaxIter
    /\ batch_input_dict' =
          [key \in DOMAIN segments_input_dict |->
              TorchTensor(key, batch_slice(segments_input_dict[key], pointer, batch_size))]
    /\ pointer' = next_pointer(pointer, batch_size)
    /\ invocations' = Append(invocations,
                             [pointer |-> pointer, batch |-> batch_input_dict'])
    /\ pc' = "model"
    /\ UNCHANGED <<call, input_dict, segment_samples, batch_size, kind, outcome,
                   audio, segments, segments_input_dict, output_dict, completed,
                   result, deframed, sep_audio, prev, subband_vars>>

\* lines 203-208: the model returns and its chunks are appended per key
ModelReturn ==
    /\ pc = "model"
    /\ LET batch_output_dict == Model(kind, batch_input_dict)
       IN  output_dict' = append_to_dict(output_dict, "wav", batch_output_dict["wav"])
    /\ completed' = completed + 1
    /\ pc' = "fwd_loop"
    /\ UNCHANGED <<call, input_dict, segment_samples, batch_size, kind, outcome,
                   audio, segments, pointer, segments_input_dict, batch_input_dict,
                   invocations, result, deframed, sep_audio, prev, subband_vars>>

\* lines 189-190 and 210-213: the loop ends, the chunks are concatenated;
\* separate then reads ['wav'] (line 65)
ForwardBreak ==
    /\ pc = "fwd_loop"
    /\ pointer >= segments_num
    /\ result' = [key \in DOMAIN output_dict |-> ConcatChunks(output_dict[key])]
    /\ IF call = "forward"
       THEN /\ pc' = "done"
            /\ outcome' = "returned"
       ELSE IF "wav" \in DOMAIN output_dict
       THEN /\ pc' = "deframe"
            /\ outcome' = outcome
       ELSE /\ pc' = "done"
            /\ outcome' = "KeyError"
    /\ UNCHANGED <<call, input_dict, segment_samples, batch_size, kind, audio,
                   segments, pointer, segments_input_dict, batch_input_dict,
                   output_dict, invocations, completed, deframed, sep_audio, prev, subband_vars>>

\* ------------------------------------------------------------------- deframe

\* deframe (lines 136-159), then separate trims and returns (lines 72-75)
Deframe ==
    /\ pc = "deframe"
    /\ LET segs == result["wav"]
       IN  IF Len(segs) = 0
           THEN \* segments[0] of an empty array, past the assertions
                /\ deframed' = deframed
                /\ sep_audio' = sep_audio
                /\ outcome' = IF deframe_asserts(segment_samples)
                              THEN "IndexError" ELSE "AssertionError"
           ELSE IF Len(segs) = 1 \/ deframe_asserts(Len(segs[1][1]))
           THEN /\ deframed' = deframe(segs)
                /\ sep_audio' = SliceSamples(deframed', 0, audio_samples)
                /\ outcome' = "returned"
           ELSE /\ deframed' = deframed
                /\ sep_audio' = sep_audio
                /\ outcome' = "AssertionError"
    /\ pc' = "done"
    /\ UNCHANGED <<call, input_dict, segment_samples, batch_size, kind, audio,
                   segments, pointer, segments_input_dict, batch_input_dict,
                   output_dict, invocations, completed, result, prev, subband_vars>>

\* The caller sets another batch size and separates the same input again.
SeparateAgain ==
    /\ pc = "done"
    /\ call = "separate"
    /\ outcome = "returned"
    /\ prev = << >>
    /\ \E b \in (batch_size + 1)..MaxBatch :
          /\ b >= 1
          /\ batch_size' = b
    /\ prev' = sep_audio
    /\ pc' = "separate"
    /\ outcome' = "running"
    /\ audio' = << >>
    /\ segments' = << >>
    /\ pointer' = 0
    /\ segments_input_dict' = << >>
    /\ batch_input_dict' = << >>
    /\ output_dict' = << >>
    /\ invocations' = << >>
    /\ completed' = 0
    /\ result' = << >>
    /\ deframed' = << >>
    /\ sep_audio' = << >>
    /\ UNCHANGED <<call, input_dict, segment_samples, kind, subband_vars>>

\* -------------------------------------------------------------------- Subband

\* Subband.analysis (lines 170-191)
Analysis ==
    /\ pc = "analysis"
    /\ IF CanReshape(x, analysis_shape(x, subbands_num))
       THEN /\ packed' = analysis(x, subbands_num)
            /\ pc' = "synthesis"
            /\ outcome' = outcome
       ELSE /\ packed' = packed
            /\ pc' = "done"
            /\ outcome' = "RuntimeError"
    /\ UNCHANGED <<call, separator_vars, subbands_num, x, unpacked>>

\* Subband.synthesis (lines 203-223) of what analysis returned
Synthesis ==
    /\ pc = "synthesis"
    /\ IF CanReshape(packed, synthesis_shape(packed, subbands_num))
       THEN /\ unpacked' = synthesis(packed, subbands_num)
            /\ outcome' = "returned"
       ELSE /\ unpacked' = unpacked
            /\ outcome' = "RuntimeError"
    /\ pc' = "done"
    /\ UNCHANGED <<call, separator_vars, subbands_num, x, packed>>

Next ==
    \/ SeparatePad
    \/ EnframeEntry
    \/ EnframeStep
    \/ EnframeReturn
    \/ ForwardEntry
    \/ ForwardInvoke
    \/ ModelReturn
    \/ ForwardBreak
    \/ Deframe
    \/ SeparateAgain
    \/ Analysis
    \/ Synthesis

Spec == Init /\ [][Next]_vars

\* ------------------------------------------------------------------- claims

Float32Wave(w) == [c \in 1..Len(w) |-> [s \in 1..Len(w[c]) |-> ToFloat32(w[c][s])]]
SeparateReturned == call = "separate" /\ pc = "done" /\ outcome = "returned"

\* C1 as claimed: with a model that returns its input unchanged, separate
\* returns exactly the input waveform (read with a valid segment length as
\* one whose quarters are whole samples, and only where separate returns).
C1_Original ==
    (/\ SeparateReturned
     /\ kind = "identity"
     /\ batch_size >= 1
     /\ segment_samples % 4 = 0
     /\ segment_samples <= audio_samples)
    => sep_audio = waveform

\* C1 as amended: with a model that returns its input unchanged, a segment
\* length L divisible by 4 with 0 < L <= len(w) and a batch size B >= 1,
\* separate ends by returning, and returns the input waveform converted to
\* single precision, every sample at its own index: exactly the input when
\* the input's samples are single-precision values.
C1_Identity ==
    (/\ call = "separate"
     /\ pc = "done"
     /\ kind = "identity"
     /\ batch_size >= 1
     /\ segment_samples % 4 = 0
     /\ segment_samples <= audio_samples)
    => /\ outcome = "returned"
       /\ sep_audio = Float32Wave(waveform)
       /\ (Float32Wave(waveform) = waveform => sep_audio = waveform)

C1_Witness ==
    /\ SeparateReturned
    /\ kind = "identity"
    /\ batch_size = 2
    /\ segment_samples = 4
    /\ waveform = Ramp64(2, 10)
    /\ Len(segments) = 5
    /\ sep_audio = Float32Wave(waveform)

C3_SubbandRoundTrip ==
    (call = "subband" /\ pc = "done" /\ x.shape[4] % subbands_num = 0)
    => LET k == subbands_num
           w == x.shape[4] \div k
       IN  /\ outcome = "returned"
           /\ unpacked = x
           /\ packed.shape = <<x.shape[1], x.shape[2] * k, x.shape[3], w>>
           /\ \A b \in 0..(x.shape[1] - 1), c \in 0..(x.shape[2] - 1),
                 j \in 0..(k - 1), t \in 0..(x.shape[3] - 1), f \in 0..(w - 1) :
                 At(packed, b, c * k + j, t, f) = At(x, b, c, t, j * w + f)

C3_Witness ==
    /\ call = "subband"
    /\ pc = "done"
    /\ outcome = "returned"
    /\ subbands_num = 2
    /\ x.shape = <<2, 2, 2, 4>>
    /\ unpacked = x
    /\ packed # x

\* C4: the padded audio has ceil(S/L)*L samples (the least multiple of L
\* that is at least S), begins with the input, ends in zeros, and is the
\* input itself when S is a multiple of L; so the assertion of enframe holds
\* whenever separate enters enframe.
C4_PadPostcondition ==
    (call = "separate" /\ pc # "separate")
    => /\ Len(audio) = Len(waveform)
       /\ \A c \in 1..Len(audio) :
             /\ Len(audio[c]) % segment_samples = 0
             /\ Len(audio[c]) >= audio_samples
             /\ Len(audio[c]) - audio_samples < segment_samples
             /\ \A s \in 1..Len(audio[c]) :
                   audio[c][s] = IF s <= audio_samples THEN waveform[c][s] ELSE 0
       /\ (audio_samples % segment_samples = 0 => audio = waveform)
       /\ ~(pc = "done" /\ outcome = "AssertionError" /\ segments_input_dict = << >>)

C4_Witness ==
    /\ call = "separate"
    /\ pc = "enframe"
    /\ segment_samples = 4
    /\ waveform = Ramp32(2, 10)
    /\ Len(audio[1]) = 12
    /\ audio[2][11] = 0

\* C5: when enframe returns it has made 1 + (P - L) / hop segments, hop =
\* L // 2 (the division is exact for an even L), and segment i, counted from
\* 0, is samples [i*hop, i*hop + L) of every channel of the padded audio.
C5_SliceCount ==
    (call = "separate" /\ pc = "forward")
    => LET P == Len(audio[1])
           hop == segment_samples \div 2
       IN  /\ hop >= 1
           /\ Len(segments) = 1 + (P - segment_samples) \div hop
           /\ (segment_samples % 2 = 0 => (P - segment_samples) % hop = 0)
           /\ \A i \in 0..(Len(segments) - 1) :
                 /\ Len(segments[i + 1]) = Len(audio)
                 /\ \A c \in 1..Len(audio) :
                       /\ Len(segments[i + 1][c]) = segment_samples
                       /\ \A s \in 1..segment_samples :
                             segments[i + 1][c][s] = audio[c][i * hop + s]

C5_Witness ==
    /\ call = "separate"
    /\ pc = "forward"
    /\ segment_samples = 4
    /\ audio_samples = 10
    /\ Len(audio[1]) = 12
    /\ Len(segments) = 5
    /\ segments[5][1] = SubSeq(audio[1], 9, 12)

\* What deframe keeps of n >= 2 segments of length L: [0, 3L/4) of the first,
\* [L/4, 3L/4) of each interior one, [L/4, L) of the last, laid end to end.
DeframeKeeps ==
    LET segs == result["wav"]
        n == Len(segs)
        L == segment_samples
        q == L \div 4
    IN  \A c \in 1..Len(deframed) :
          \A i \in 1..n :
            LET lo == IF i = 1 THEN 0 ELSE q
                hi == IF i = n THEN L ELSE 3 * q
                at == IF i = 1 THEN 0 ELSE 3 * q + (i - 2) * 2 * q
            IN  \A s \in (lo + 1)..hi : deframed[c][at + s - lo] = segs[i][c][s]

DeframedSeveral == SeparateReturned /\ Len(result["wav"]) >= 2

\* C6 as claimed: the kept slices have total length (n - 2) * L / 2 + L, the
\* sample count of the padded waveform.
C6_Original ==
    DeframedSeveral
    => /\ DeframeKeeps
       /\ \A c \in 1..Len(deframed) :
             /\ Len(deframed[c]) = (Len(result["wav"]) - 2) * (segment_samples \div 2)
                                      + segment_samples
             /\ Len(deframed[c]) = Len(audio[c])

\* C6 as amended: for n >= 2 segments of length L (then divisible by 4)
\* deframe keeps those slices, and their total length is
\* (n - 2) * L / 2 + 3 * L / 2 = (n + 1) * L / 2, the sample count of the
\* padded waveform.
C6_ReassemblyLength ==
    DeframedSeveral
    => /\ segment_samples % 4 = 0
       /\ DeframeKeeps
       /\ \A c \in 1..Len(deframed) :
             /\ 2 * Len(deframed[c]) =
                   (Len(result["wav"]) - 2) * segment_samples + 3 * segment_samples
             /\ Len(deframed[c]) = Len(audio[c])

C6_Witness ==
    /\ DeframedSeveral
    /\ segment_samples = 4
    /\ Len(result["wav"]) = 5
    /\ Len(deframed[1]) = 12
    /\ kind = "reverse"

\* The model calls so far, for a batch size B >= 1 and N items under every
\* key: call i runs on items [(i-1)*B, min(i*B, N)) of every key.
EqualLengths ==
    \A key \in DOMAIN segments_input_dict : Len(segments_input_dict[key]) = segments_num

ChunksInOrder ==
    \A i \in 1..Len(invocations) :
       LET lo == (i - 1) * batch_size
           hi == IF i * batch_size < segments_num THEN i * batch_size ELSE segments_num
           batch == invocations[i].batch
       IN  /\ invocations[i].pointer = lo
           /\ lo < segments_num
           /\ DOMAIN batch = DOMAIN segments_input_dict
           /\ \A key \in DOMAIN batch :
                 /\ Len(batch[key]) = hi - lo
                 /\ Len(batch[key]) <= batch_size
                 /\ (Len(batch[key]) < batch_size => hi = segments_num)
                 /\ \A j \in 1..(hi - lo) :
                       <<batch[key][j]>> =
                          TorchTensor(key, <<segments_input_dict[key][lo + j]>>)

ForwardReturned ==
    \/ call = "forward" /\ pc = "done"
    \/ call = "separate" /\ pc = "deframe"

\* C7: for B >= 1 and N items under every key the model is called
\* ceil(N/B) times, on the consecutive ranges [0,B), [B,2B), ... of every
\* key, a call starting only when the one before has returned; the
\* concatenated 'wav' has N items, item j the model's output for item j.
C7_DispatchOrder ==
    (call \in {"separate", "forward"} /\ batch_size >= 1 /\ pc # "separate"
        /\ segments_input_dict # << >> /\ EqualLengths)
    => /\ ChunksInOrder
       /\ Len(invocations) - completed = (IF pc = "model" THEN 1 ELSE 0)
       /\ (pc = "fwd_loop" => pointer = Len(invocations) * batch_size)
       /\ ForwardReturned =>
             /\ Len(invocations) * batch_size >= segments_num
             /\ (Len(invocations) - 1) * batch_size < segments_num
             /\ completed = Len(invocations)
             /\ segments_num >= 1 =>
                   /\ DOMAIN result = {"wav"}
                   /\ Len(result["wav"]) = segments_num
                   /\ \A j \in 1..segments_num :
                         result["wav"][j] =
                            ModelItem(kind,
                               TorchTensor("waveform",
                                  <<segments_input_dict["waveform"][j]>>)[1])

C7_Witness ==
    /\ call = "forward"
    /\ pc = "done"
    /\ batch_size = 2
    /\ segments_num = 3
    /\ DOMAIN segments_input_dict = {"waveform", "condition"}
    /\ EqualLengths
    /\ Len(invocations) = 2
    /\ Len(invocations[2].batch["condition"]) = 1
    /\ kind = "scale"

\* C8 as claimed, for a call with at least one segment: with batch_size <= 0
\* the call is rejected with InvalidArgument before the model is invoked
\* once, and never returns an output.
C8_Rejected ==
    (/\ call \in {"separate", "forward"}
     /\ batch_size <= 0
     /\ segments_input_dict # << >>
     /\ segments_num >= 1)
    => /\ invocations = << >>
       /\ outcome # "returned"
       /\ (pc = "done" => outcome = "InvalidArgument")

\* C9 as claimed: every turn of the enframe loop moves its pointer forward.
C9_PointerAdvances ==
    [][(pc = "enframe_loop" /\ pc' = "enframe_loop") => pointer' > pointer]_vars

\* C10 as claimed: in every model invocation all keys of the chunk
\* dictionary have the same number of items, a run on a dictionary whose
\* keys differ in length failing with LengthMismatch instead.
C10_EqualCounts ==
    call \in {"separate", "forward"}
    => /\ \A i \in 1..Len(invocations) :
             \A k1, k2 \in DOMAIN invocations[i].batch :
                Len(invocations[i].batch[k1]) = Len(invocations[i].batch[k2])
       /\ (segments_input_dict # << >> /\ ~EqualLengths /\ pc = "done")
             => outcome = "LengthMismatch"

=============================================================================
